---- MODULE Spec2Model ----
(***************************************************************************)
(* A model of graphrl/graphrl.py: the Graph / Solution data model with its *)
(* copy-on-write views, the Problem / MVCProblem strategy and the circular *)
(* ReplayMemory.                                                           *)
(*                                                                         *)
(* Python objects live in heaps: `graphs` holds the Graph objects, `objs`  *)
(* the Solution objects, `lists` the Python lists a Solution.solution      *)
(* field may point to and `fvecs` the tensors a Solution.featurevec field  *)
(* may point to.  A field that holds a reference holds the index of the    *)
(* referenced object in its heap, so that aliasing (`is`) is observable.   *)
(* An operation is an operator from the heap (and its arguments) to the    *)
(* heap after the call, the error raised ("ok" for none) and the value     *)
(* returned; the actions apply these operators.                            *)
(* Node indices are 0-based as in the code; TLA+ sequences are 1-based, so *)
(* node i of a tensor is element i+1 of the sequence that models it.       *)
(***************************************************************************)
EXTENDS Integers, Sequences, FiniteSets, TLC

VARIABLES graphs, objs, lists, fvecs, lineage, seen, last,
          capacity, arr, index, nadds, stamps

vars == <<graphs, objs, lists, fvecs, lineage, seen, last,
          capacity, arr, index, nadds, stamps>>

solvars == <<graphs, objs, lists, fvecs, lineage, seen>>
rmvars == <<capacity, arr, index, nadds, stamps>>

(***************************************************************************)
(* Bounds of the model.                                                    *)
(***************************************************************************)
\* the number of Solution objects a behaviour may construct
MaxObjs == 3
\* the embedder's action values are drawn from -QMax and QMax (in units of
\* 10^9)
QMax == 20

(***************************************************************************)
(* Values.                                                                 *)
(***************************************************************************)
\* Python's None, and a present Optional[int] (Solution.nsteps, pad)
None == << >>
Some(k) == <<k>>
IsNone(x) == x = << >>
Val(x) == x[1]

Range(s) == {s[i] : i \in 1..Len(s)}
Min(a, b) == IF a < b THEN a ELSE b

\* list[:k] for 0 <= k: the first min(k, len) elements
Prefix(s, k) == SubSeq(s, 1, Min(k, Len(s)))
\* list[k:] for 0 <= k: what follows the first k elements
Suffix(s, k) == SubSeq(s, Min(k, Len(s)) + 1, Len(s))

\* what a call yields: the heap after it, the error raised and the value returned
Result(h, err, ret) == [heap |-> h, err |-> err, ret |-> ret]

(***************************************************************************)
(* Graph.                                                                  *)
(***************************************************************************)
\* the adjacency matrix of the tests: edges 0-2, 1-3 and 2-3 on four nodes
TestAdjacency == << <<0, 0, 1, 0>>, <<0, 0, 0, 1>>, <<1, 0, 0, 1>>, <<0, 1, 1, 0>> >>
\* weights = ones * adjacency
TestWeights == TestAdjacency

\* a three-node matrix with an entry that is not 1 (1-2) and a self loop (2-2)
SmallAdjacency == << <<0, 1, 0>>, <<1, 0, 2>>, <<0, 2, 1>> >>
SmallWeights == << <<0, 1, 0>>, <<1, 0, 1>>, <<0, 1, 1>> >>

\* a three-node matrix that differs from SmallAdjacency in one entry
OtherAdjacency == << <<0, 1, 1>>, <<1, 0, 2>>, <<1, 2, 1>> >>

\* a dict with no entry, and d[key] = value
EmptyDict == [k \in {} |-> 0]
DictPut(d, key, value) ==
    [k \in DOMAIN d \cup {key} |-> IF k = key THEN value ELSE d[k]]

\* Graph.__init__: the two matrices, square and of the same size, and the
\* two empty caches
Graph(adjacency, weights) ==
    [adjacency |-> adjacency, weights |-> weights,
     adjcache |-> EmptyDict, wtcache |-> EmptyDict]

\* Graph.__len__
GraphLen(g) == Len(g.adjacency)

\* Graph.__eq__: torch.equal of both matrices (size and elements)
GraphEq(g1, g2) == g1.adjacency = g2.adjacency /\ g1.weights = g2.weights

\* F.pad(m, (0, p - n, 0, p - n)) for p >= n: zeros on the high-index side
PadMatrix(m, p) ==
    [i \in 1..p |-> [j \in 1..p |->
        IF i <= Len(m) /\ j <= Len(m) THEN m[i][j] ELSE 0]]

\* `if pad:` is false for None and for 0
Truthy(pad) == ~IsNone(pad) /\ Val(pad) # 0

\* Graph.adjacency(pad): the graph after the call (its cache), the error
\* and the matrix returned
GraphAdjacency(g, pad) ==
    IF pad \in DOMAIN g.adjcache
    THEN [graph |-> g, err |-> "ok", ret |-> g.adjcache[pad]]
    ELSE IF Truthy(pad) /\ ~(Val(pad) >= GraphLen(g))
    THEN [graph |-> g, err |-> "AssertionError", ret |-> << >>]
    ELSE LET ret == IF Truthy(pad) THEN PadMatrix(g.adjacency, Val(pad))
                    ELSE g.adjacency
         IN  [graph |-> [g EXCEPT !.adjcache = DictPut(g.adjcache, pad, ret)],
              err |-> "ok", ret |-> ret]

\* Graph.weights(pad): as adjacency, over the weights and their cache
GraphWeights(g, pad) ==
    IF pad \in DOMAIN g.wtcache
    THEN [graph |-> g, err |-> "ok", ret |-> g.wtcache[pad]]
    ELSE IF Truthy(pad) /\ ~(Val(pad) >= GraphLen(g))
    THEN [graph |-> g, err |-> "AssertionError", ret |-> << >>]
    ELSE LET ret == IF Truthy(pad) THEN PadMatrix(g.weights, Val(pad))
                    ELSE g.weights
         IN  [graph |-> [g EXCEPT !.wtcache = DictPut(g.wtcache, pad, ret)],
              err |-> "ok", ret |-> ret]

(***************************************************************************)
(* Solution: the heap of Solution objects and of the storage they share.   *)
(***************************************************************************)
Heap == [graphs |-> graphs, objs |-> objs, lists |-> lists, fvecs |-> fvecs]

\* torch.zeros(len(graph))
Zeros(n) == [i \in 1..n |-> 0]

\* len(self.graph) of Solution object o in heap h
NumNodes(h, o) == GraphLen(h.graphs[h.objs[o].graph])
\* the list self.solution and the tensor self.featurevec point to
SolList(h, o) == h.lists[h.objs[o].solution]
FeatVec(h, o) == h.fvecs[h.objs[o].featurevec]

\* Solution.__init__ with solution=None, featurevec=None: a fresh empty list
\* and a fresh zero tensor
NewSolution(h, g) ==
    [h EXCEPT !.lists = Append(h.lists, << >>),
              !.fvecs = Append(h.fvecs, Zeros(GraphLen(h.graphs[g]))),
              !.objs = Append(h.objs, [graph |-> g,
                                       solution |-> Len(h.lists) + 1,
                                       featurevec |-> Len(h.fvecs) + 1,
                                       nsteps |-> None])]

\* the tensor t with the entries of the nodes in sequence s set to 1.
RECURSIVE OneAt(_, _)
OneAt(t, s) ==
    IF s = << >> THEN t
    ELSE OneAt([t EXCEPT ![Head(s) + 1] = 1], Tail(s))

\* Solution.__init__ with a list for solution and featurevec=None: the list
\* as handed in, and a fresh tensor with 1. at each of its nodes
SolutionFromList(h, g, solution) ==
    [h EXCEPT !.lists = Append(h.lists, solution),
              !.fvecs = Append(h.fvecs, OneAt(Zeros(GraphLen(h.graphs[g])), solution)),
              !.objs = Append(h.objs, [graph |-> g,
                                       solution |-> Len(h.lists) + 1,
                                       featurevec |-> Len(h.fvecs) + 1,
                                       nsteps |-> None])]

\* Solution.__len__
SolLen(h, o) ==
    IF ~IsNone(h.objs[o].nsteps) THEN Val(h.objs[o].nsteps) ELSE Len(SolList(h, o))

\* Solution.nodes_included
nodes_included(h, o) ==
    IF ~IsNone(h.objs[o].nsteps) THEN Prefix(SolList(h, o), Val(h.objs[o].nsteps))
    ELSE SolList(h, o)

\* features that leaves the bound of a view out: every stamp is marked
features_unbounded(h, o) ==
    LET f == FeatVec(h, o)
    IN  [i \in 1..Len(f) |-> f[i] # 0]

\* Solution.features (pad=None): the boolean mask over the nodes
features(h, o) ==
    LET f == FeatVec(h, o)
        ns == h.objs[o].nsteps
    IN  IF IsNone(ns) THEN [i \in 1..Len(f) |-> f[i] # 0]
        ELSE [i \in 1..Len(f) |-> (f[i] <= Val(ns)) /\ (f[i] # 0)]

\* SolutionIter: list(iter(self)), or the IndexError of reading past the list
SolIter(h, o) ==
    IF SolLen(h, o) <= Len(SolList(h, o))
    THEN [err |-> "ok", ret |-> Prefix(SolList(h, o), SolLen(h, o))]
    ELSE [err |-> "IndexError", ret |-> SolList(h, o)]

\* Solution.__getitem__ for a key >= 0
getitem(h, o, key) ==
    IF ~IsNone(h.objs[o].nsteps) /\ key >= Val(h.objs[o].nsteps)
    THEN [err |-> "IndexError", ret |-> 0]
    ELSE IF key >= Len(SolList(h, o))
    THEN [err |-> "IndexError", ret |-> 0]
    ELSE [err |-> "ok", ret |-> SolList(h, o)[key + 1]]

\* Solution.__contains__: bool(self.featurevec[node]) for a node of 0..N-1
contains(h, o, node) == FeatVec(h, o)[node + 1] # 0

\* __eq__ without the comparison of the graphs
SolEq_nograph(h, a, b) ==
    IF SolLen(h, a) # SolLen(h, b) THEN [err |-> "ok", ret |-> FALSE]
    ELSE IF h.objs[a].solution = h.objs[b].solution /\ h.objs[a].nsteps = h.objs[b].nsteps
    THEN [err |-> "ok", ret |-> TRUE]
    ELSE [err |-> "ok",
          ret |-> \A i \in 1..SolLen(h, a) : SolList(h, a)[i] = SolList(h, b)[i]]

\* Solution.__eq__
SolEq(h, a, b) ==
    IF SolLen(h, a) # SolLen(h, b) THEN [err |-> "ok", ret |-> FALSE]
    ELSE IF ~GraphEq(h.graphs[h.objs[a].graph], h.graphs[h.objs[b].graph])
    THEN [err |-> "ok", ret |-> FALSE]
    ELSE IF h.objs[a].solution = h.objs[b].solution /\ h.objs[a].nsteps = h.objs[b].nsteps
    THEN [err |-> "ok", ret |-> TRUE]
    ELSE LET n == SolLen(h, a)
             bad == {i \in 0..(n - 1) :
                        getitem(h, a, i).err # "ok" \/ getitem(h, b, i).err # "ok"}
             diff == {i \in 0..(n - 1) : i \notin bad /\
                        getitem(h, a, i).ret # getitem(h, b, i).ret}
         IN  \* the loop stops at the first difference or the first error
             IF \E i \in bad : \A j \in diff : i < j
             THEN [err |-> "IndexError", ret |-> FALSE]
             ELSE [err |-> "ok", ret |-> diff = {}]

\* the tensor t with the entries of the nodes in sequence s set to 0
RECURSIVE ZeroAt(_, _)
ZeroAt(t, s) ==
    IF s = << >> THEN t
    ELSE ZeroAt([t EXCEPT ![Head(s) + 1] = 0], Tail(s))

\* _resolve_view without the clone(): the later selections are cleared in
\* the tensor the view shares
resolve_view_noclone(h, o) ==
    IF ~IsNone(h.objs[o].nsteps)
    THEN LET ns == Val(h.objs[o].nsteps)
             sol == SolList(h, o)
         IN  [h EXCEPT !.fvecs[h.objs[o].featurevec] = ZeroAt(FeatVec(h, o), Suffix(sol, ns)),
                       !.lists = Append(h.lists, Prefix(sol, ns)),
                       !.objs[o].solution = Len(h.lists) + 1,
                       !.objs[o].nsteps = None]
    ELSE h

\* Solution._resolve_view: a view gets a clone of the tensor with the later
\* selections cleared and a copy of the list cut at its bound
resolve_view(h, o) ==
    IF ~IsNone(h.objs[o].nsteps)
    THEN LET ns == Val(h.objs[o].nsteps)
             sol == SolList(h, o)
         IN  [h EXCEPT !.fvecs = Append(h.fvecs, ZeroAt(FeatVec(h, o), Suffix(sol, ns))),
                       !.lists = Append(h.lists, Prefix(sol, ns)),
                       !.objs[o].featurevec = Len(h.fvecs) + 1,
                       !.objs[o].solution = Len(h.lists) + 1,
                       !.objs[o].nsteps = None]
    ELSE h

\* the stamp taken before the append: the 0-based step
Stamp_zero_based(h, o, nodeidx) ==
    LET l == h.objs[o].solution
        f == h.objs[o].featurevec
    IN  [h EXCEPT !.lists[l] = Append(h.lists[l], nodeidx),
                  !.fvecs[f][nodeidx + 1] = Len(h.lists[l])]

\* the receiver's list and tensor after `append` and the stamp of add_node
Stamp(h, o, nodeidx) ==
    LET l == h.objs[o].solution
        f == h.objs[o].featurevec
    IN  [h EXCEPT !.lists[l] = Append(h.lists[l], nodeidx),
                  !.fvecs[f][nodeidx + 1] = Len(h.lists[l]) + 1]

\* add_node that looks at the tensor before it resolves the view
add_node_check_first(h, o, nodeidx) ==
    IF ~(0 <= nodeidx /\ nodeidx < NumNodes(h, o))
    THEN Result(h, "AssertionError", 0)
    ELSE IF FeatVec(h, o)[nodeidx + 1] # 0
    THEN Result(h, "AssertionError", 0)
    ELSE LET h1 == resolve_view(h, o)
             h2 == [h1 EXCEPT !.objs[o].nsteps = Some(Len(SolList(h1, o)))]
             h3 == Stamp(h2, o, nodeidx)
         IN  Result([h3 EXCEPT !.objs = Append(h3.objs,
                            [graph |-> h3.objs[o].graph,
                             solution |-> h3.objs[o].solution,
                             featurevec |-> h3.objs[o].featurevec,
                             nsteps |-> None])],
                    "ok", Len(h3.objs) + 1)

\* add_node that leaves the receiver without a bound: the receiver goes on
\* as an owner of the list it hands to the Solution it returns
add_node_no_bound(h, o, nodeidx) ==
    IF ~(0 <= nodeidx /\ nodeidx < NumNodes(h, o))
    THEN Result(h, "AssertionError", 0)
    ELSE LET h1 == resolve_view(h, o)
         IN  IF FeatVec(h1, o)[nodeidx + 1] # 0
             THEN Result(h1, "AssertionError", 0)
             ELSE LET h3 == Stamp(h1, o, nodeidx)
                  IN  Result([h3 EXCEPT !.objs = Append(h3.objs,
                                     [graph |-> h3.objs[o].graph,
                                      solution |-> h3.objs[o].solution,
                                      featurevec |-> h3.objs[o].featurevec,
                                      nsteps |-> None])],
                             "ok", Len(h3.objs) + 1)

\* Solution.add_node
add_node(h, o, nodeidx) ==
    IF ~(0 <= nodeidx /\ nodeidx < NumNodes(h, o))
    THEN Result(h, "AssertionError", 0)
    ELSE LET h1 == resolve_view(h, o)
         IN  IF FeatVec(h1, o)[nodeidx + 1] # 0
             THEN Result(h1, "AssertionError", 0)
             ELSE LET h2 == [h1 EXCEPT !.objs[o].nsteps = Some(Len(SolList(h1, o)))]
                      h3 == Stamp(h2, o, nodeidx)
                  IN  Result([h3 EXCEPT !.objs = Append(h3.objs,
                                     [graph |-> h3.objs[o].graph,
                                      solution |-> h3.objs[o].solution,
                                      featurevec |-> h3.objs[o].featurevec,
                                      nsteps |-> None])],
                             "ok", Len(h3.objs) + 1)

\* subsolution_at_step that hands the step on off by one
subsolution_off_by_one(h, o, step) ==
    Result([h EXCEPT !.objs = Append(h.objs, [graph |-> h.objs[o].graph,
                                              solution |-> h.objs[o].solution,
                                              featurevec |-> h.objs[o].featurevec,
                                              nsteps |-> Some(Min(step + 1, Len(SolList(h, o))))])],
           "ok", Len(h.objs) + 1)

\* Solution.subsolution_at_step: a view object over the same list and tensor
subsolution_at_step(h, o, step) ==
    Result([h EXCEPT !.objs = Append(h.objs, [graph |-> h.objs[o].graph,
                                              solution |-> h.objs[o].solution,
                                              featurevec |-> h.objs[o].featurevec,
                                              nsteps |-> Some(step)])],
           "ok", Len(h.objs) + 1)

\* the nodes whose entry of tensor t is 0, in index order
RECURSIVE ZeroEntries(_, _)
ZeroEntries(t, i) ==
    IF i > Len(t) THEN << >>
    ELSE IF t[i] = 0 THEN <<i - 1>> \o ZeroEntries(t, i + 1)
    ELSE ZeroEntries(t, i + 1)

\* pick_random_node without the _resolve_view(): a view counts and scans
\* the list and the tensor it shares
pick_random_node_noresolve(h, o, pos) ==
    LET num_nodes == NumNodes(h, o) - Len(SolList(h, o))
        free == ZeroEntries(FeatVec(h, o), 1)
    IN  IF num_nodes <= 0 THEN Result(h, "IndexError", 0)
        ELSE IF pos < Len(free) THEN Result(h, "ok", free[pos + 1])
        ELSE Result(h, "AssertionError", 0)

\* Solution.pick_random_node; random.randrange(0, num_nodes) returns `pos`
pick_random_node(h, o, pos) ==
    LET h1 == resolve_view(h, o)
        num_nodes == NumNodes(h1, o) - Len(SolList(h1, o))
        free == ZeroEntries(FeatVec(h1, o), 1)
    IN  IF num_nodes <= 0 THEN Result(h1, "IndexError", 0)
        ELSE IF pos < Len(free) THEN Result(h1, "ok", free[pos + 1])
        ELSE Result(h1, "AssertionError", 0)

\* the constants of pick_node's mask and of its assertion, in units of 10^9:
\* -9999999999. and -999999999 (as float32: -1e10 and -1e9)
MaskValue == 10
AssertBound == 1

\* qs.max(0): the maximal value and the first index that holds it
MaxOf(q) == CHOOSE v \in Range(q) : \A w \in Range(q) : w <= v
ArgMax(q) == CHOOSE i \in 1..Len(q) : q[i] = MaxOf(q) /\ \A j \in 1..(i - 1) : q[j] # MaxOf(q)

\* Solution.pick_node: the embedder returns the values qs for the nodes,
\* `explore` is the outcome of random.random() < epsilon, and pos the draw
\* of pick_random_node
pick_node(h, o, qs, explore, pos) ==
    IF SolLen(h, o) >= NumNodes(h, o) THEN Result(h, "IndexError", 0)
    ELSE IF explore THEN pick_random_node(h, o, pos)
    ELSE LET f == features(h, o)
             masked == [i \in 1..NumNodes(h, o) |->
                           qs[i] + (0 - MaskValue) * (IF f[i] THEN 1 ELSE 0)]
         IN  IF ~(MaxOf(masked) > 0 - AssertBound)
             THEN Result(h, "AssertionError", 0)
             ELSE Result(h, "ok", ArgMax(masked) - 1)

(***************************************************************************)
(* Problem / MVCProblem.                                                   *)
(***************************************************************************)
\* adjacency[sel, :].fill_(0); adjacency[:, sel].fill_(0) for each sel of s
RECURSIVE FillZero(_, _)
FillZero(m, s) ==
    IF s = << >> THEN m
    ELSE FillZero([i \in 1..Len(m) |-> [j \in 1..Len(m) |->
                     IF i = Head(s) + 1 \/ j = Head(s) + 1 THEN 0 ELSE m[i][j]]],
                  Tail(s))

\* torch.any(torch.eq(m, 1))
AnyOne(m) == \E i \in 1..Len(m) : \E j \in 1..Len(m) : m[i][j] = 1

\* terminate without the clone(): the fills reach the graph's own matrix
terminate_inplace(h, o) ==
    LET g == h.objs[o].graph
        a == GraphAdjacency(h.graphs[g], None)
        it == SolIter(h, o)
        m == FillZero(a.ret, it.ret)
    IN  Result([h EXCEPT !.graphs[g] = [a.graph EXCEPT !.adjacency = m,
                                                        !.adjcache = DictPut(a.graph.adjcache, None, m)]],
               it.err, ~AnyOne(m))

\* MVCProblem.terminate: the fills go to a clone of solution.adjacency(),
\* which leaves the graph with its cache entry for pad=None
terminate(h, o) ==
    LET g == h.objs[o].graph
        a == GraphAdjacency(h.graphs[g], None)
        h1 == [h EXCEPT !.graphs[g] = a.graph]
        it == SolIter(h1, o)
    IN  IF it.err # "ok" THEN Result(h1, it.err, FALSE)
        ELSE Result(h1, "ok", ~AnyOne(FillZero(a.ret, it.ret)))

\* cost that counts the nodes of the list, not those of the solution
cost_of_list(h, o) == 0 - Len(SolList(h, o))

\* MVCProblem.cost: -float(len(solution))
cost(h, o) == 0 - SolLen(h, o)

\* Problem.cumul_reward for an MVCProblem; the two views are temporaries,
\* dropped when the call returns
cumul_reward(h, o, fr, to) ==
    LET vt == subsolution_at_step(h, o, to)
        ct == cost(vt.heap, vt.ret)
        vf == subsolution_at_step(vt.heap, o, fr)
        cf == cost(vf.heap, vf.ret)
    IN  Result([vf.heap EXCEPT !.objs = SubSeq(vf.heap.objs, 1, Len(h.objs))],
               "ok", ct - cf)

(***************************************************************************)
(* The operations as actions.  `last` records the call made by the step:   *)
(* its name, the error it raised ("ok" for none) and what it returned     *)
(* (for pick_node: the receiver and what it returned).                     *)
(* `lineage` and `seen` are history: lineage[v] is the object a view v was *)
(* taken of (0 for an object that is not one) and seen[v] what that object *)
(* showed at that moment; add_node hands both on to the object it returns. *)
(***************************************************************************)
Call(op, err, ret) == [op |-> op, err |-> err, ret |-> ret]

\* the call made by the last step was op, raised err and returned ret
Last(op, err, ret) == last.op = op /\ last.err = err /\ last.ret = ret

SetHeap(h) ==
    /\ graphs' = h.graphs
    /\ objs' = h.objs
    /\ lists' = h.lists
    /\ fvecs' = h.fvecs

Objects == 1..Len(objs)

\* what the readers of Solution o show: len, nodes_included(), list(iter)
\* and features()
Obs(h, o) ==
    [len |-> SolLen(h, o), nodes |-> nodes_included(h, o),
     iter |-> SolIter(h, o), features |-> features(h, o)]

\* s = Solution(graph)
DoNewSolution(g) ==
    /\ Len(objs) < MaxObjs
    /\ SetHeap(NewSolution(Heap, g))
    /\ lineage' = Append(lineage, 0)
    /\ seen' = Append(seen, << >>)
    /\ last' = Call("Solution", "ok", Len(objs) + 1)
    /\ UNCHANGED rmvars

\* r = o.add_node(nodeidx)
DoAddNode(o, nodeidx) ==
    LET r == add_node(Heap, o, nodeidx)
    IN  /\ r.err = "ok" => Len(objs) < MaxObjs
        /\ SetHeap(r.heap)
        /\ lineage' = IF r.err = "ok" THEN Append(lineage, lineage[o]) ELSE lineage
        /\ seen' = IF r.err = "ok" THEN Append(seen, seen[o]) ELSE seen
        /\ last' = Call("add_node", r.err, r.ret)
        /\ UNCHANGED rmvars

\* v = o.subsolution_at_step(step)
DoSubsolution(o, step) ==
    LET r == subsolution_at_step(Heap, o, step)
    IN  /\ Len(objs) < MaxObjs
        /\ SetHeap(r.heap)
        /\ lineage' = Append(lineage, o)
        /\ seen' = Append(seen, Obs(Heap, o))
        /\ last' = Call("subsolution_at_step", r.err, r.ret)
        /\ UNCHANGED rmvars

\* the draws random.randrange(0, num_nodes) can return in o.pick_random_node()
Draws(h, o) ==
    LET num_nodes == NumNodes(h, o) - Len(SolList(resolve_view(h, o), o))
    IN  IF num_nodes <= 0 THEN {0} ELSE 0..(num_nodes - 1)

\* o.pick_random_node()
DoPickRandomNode(o, pos) ==
    LET r == pick_random_node(Heap, o, pos)
    IN  /\ SetHeap(r.heap)
        /\ last' = Call("pick_random_node", r.err, r.ret)
        /\ UNCHANGED <<lineage, seen>>
        /\ UNCHANGED rmvars

\* the values an embedder may return for n nodes
QValues == {0 - QMax, QMax}
Embeddings(n) == [1..n -> QValues]

\* o.pick_node(embedder, epsilon)
DoPickNode(o, qs, explore, pos) ==
    LET r == pick_node(Heap, o, qs, explore, pos)
    IN  /\ SetHeap(r.heap)
        /\ last' = Call("pick_node", r.err, <<o, r.ret>>)
        /\ UNCHANGED <<lineage, seen>>
        /\ UNCHANGED rmvars

\* a == b
DoEq(a, b) ==
    LET r == SolEq(Heap, a, b)
    IN  /\ last' = Call("eq", r.err, r.ret)
        /\ UNCHANGED solvars
        /\ UNCHANGED rmvars

\* MVCProblem().terminate(o)
DoTerminate(o) ==
    LET r == terminate(Heap, o)
    IN  /\ SetHeap(r.heap)
        /\ last' = Call("terminate", r.err, r.ret)
        /\ UNCHANGED <<lineage, seen>>
        /\ UNCHANGED rmvars

\* MVCProblem().cumul_reward(o, fr, to)
DoCumulReward(o, fr, to) ==
    LET r == cumul_reward(Heap, o, fr, to)
    IN  /\ SetHeap(r.heap)
        /\ last' = Call("cumul_reward", r.err, r.ret)
        /\ UNCHANGED <<lineage, seen>>
        /\ UNCHANGED rmvars

\* no ReplayMemory in the specifications of Solution
RmIdle ==
    /\ capacity = 1
    /\ arr = << >>
    /\ index = 0
    /\ nadds = 0
    /\ stamps = << >>

\* the sequences of distinct nodes of a graph with n nodes
RECURSIVE Chains(_, _)
Chains(n, len) ==
    IF len = 0 THEN {<< >>}
    ELSE LET grown == {<<c, i>> \in Chains(n, len - 1) \X (0..(n - 1)) : i \notin Range(c)}
         IN  {Append(x[1], x[2]) : x \in grown}

\* Solution(g).add_node(c[1])...add_node(c[n]) from heap h: the receivers of
\* the chain are temporaries, dropped with the expression, which leaves the
\* object the last call returned
RECURSIVE Replay(_, _, _)
Replay(h, g, c) ==
    IF c = << >> THEN Result(NewSolution(h, g), "ok", Len(h.objs) + 1)
    ELSE LET p == Replay(h, g, SubSeq(c, 1, Len(c) - 1))
             r == IF p.err = "ok" THEN add_node(p.heap, p.ret, c[Len(c)]) ELSE p
         IN  IF r.err # "ok" THEN r
             ELSE Result([r.heap EXCEPT !.objs =
                              Append(SubSeq(r.heap.objs, 1, Len(h.objs)),
                                     r.heap.objs[r.ret])],
                         "ok", Len(h.objs) + 1)

EmptyHeap(gs) == [graphs |-> gs, objs |-> << >>, lists |-> << >>, fvecs |-> << >>]

\* every chain of distinct nodes of a graph with n nodes
AllChains(n) == UNION {Chains(n, len) : len \in 0..n}
\* the chains of the tests, test_mvc_reward and test_state_substate, and
\* what they are built from
Prefixes(c) == {SubSeq(c, 1, k) : k \in 0..Len(c)}
TestChains == Prefixes(<<0, 3, 2>>) \cup Prefixes(<<0, 2, 3, 1>>)

\* the heap after s = Solution(g).add_node(n1)...add_node(nL) for one of the
\* graphs gs and one of the chains cs[g] of L >= 0 nodes
SolInit(gs, cs) ==
    /\ graphs = gs
    /\ \E g \in 1..Len(gs) : \E c \in cs[g] :
             LET r == Replay(EmptyHeap(gs), g, c)
             IN  /\ r.err = "ok"
                 /\ objs = r.heap.objs /\ lists = r.heap.lists /\ fvecs = r.heap.fvecs
    /\ lineage = <<0>>
    /\ seen = << << >> >>
    /\ last = Call("add_node", "ok", 1)
    /\ RmIdle

\* growing, viewing and picking
Grow ==
    \/ \E o \in Objects : \E i \in -1..NumNodes(Heap, o) : DoAddNode(o, i)
    \/ \E o \in Objects : \E k \in 0..SolLen(Heap, o) : DoSubsolution(o, k)

Pick ==
    \/ \E o \in Objects : \E pos \in Draws(Heap, o) : DoPickRandomNode(o, pos)
    \/ \E o \in Objects : \E pos \in Draws(Heap, o) :
          DoPickNode(o, Zeros(NumNodes(Heap, o)), TRUE, pos)
    \/ \E o \in Objects : \E qs \in Embeddings(NumNodes(Heap, o)) :
          DoPickNode(o, qs, FALSE, 0)

\* Solutions over one graph: add_node, subsolution_at_step and the picks
Init == SolInit(<< Graph(SmallAdjacency, SmallWeights) >>, << AllChains(3) >>)
Next == Grow \/ Pick
Spec == Init /\ [][Next]_vars

\* Solutions over several Graph objects, two of them equal by value, and ==
InitEq == SolInit(<< Graph(SmallAdjacency, SmallWeights),
                     Graph(SmallAdjacency, SmallWeights),
                     Graph(OtherAdjacency, SmallWeights) >>,
                  << AllChains(3), AllChains(3), AllChains(3) >>)
NextEq ==
    \/ Grow
    \/ \E g \in 1..Len(graphs) : DoNewSolution(g)
    \/ \E a \in Objects : \E b \in Objects : DoEq(a, b)
SpecEq == InitEq /\ [][NextEq]_vars

\* Solutions handed to an MVCProblem
InitMVC == SolInit(<< Graph(TestAdjacency, TestWeights),
                      Graph(SmallAdjacency, SmallWeights) >>,
                   << TestChains, Prefixes(<<2, 0>>) >>)
NextMVC ==
    \/ Grow
    \/ \E o \in Objects : DoTerminate(o)
    \/ \E o \in Objects : \E fr \in 0..SolLen(Heap, o) :
          \E to \in fr..SolLen(Heap, o) : DoCumulReward(o, fr, to)
SpecMVC == InitMVC /\ [][NextMVC]_vars

\* no Solution and no ReplayMemory in the specification of Graph
GraphInit(gs) ==
    /\ graphs \in gs
    /\ objs = << >>
    /\ lists = << >>
    /\ fvecs = << >>
    /\ lineage = << >>
    /\ seen = << >>
    /\ last = Call("Graph", "ok", << None, << >> >>)
    /\ RmIdle

\* the values of pad handed to adjacency and weights: none, and the integers
\* from -1 to MaxPad
MaxPad == 5
Pads == {None} \cup {Some(p) : p \in -1..MaxPad}

\* graphs[g].adjacency(pad); the call is recorded with its pad
DoAdjacency(g, pad) ==
    LET r == GraphAdjacency(graphs[g], pad)
    IN  /\ graphs' = [graphs EXCEPT ![g] = r.graph]
        /\ last' = Call("adjacency", r.err, <<pad, r.ret>>)
        /\ UNCHANGED <<objs, lists, fvecs, lineage, seen>>
        /\ UNCHANGED rmvars

\* graphs[g].weights(pad)
DoWeights(g, pad) ==
    LET r == GraphWeights(graphs[g], pad)
    IN  /\ graphs' = [graphs EXCEPT ![g] = r.graph]
        /\ last' = Call("weights", r.err, <<pad, r.ret>>)
        /\ UNCHANGED <<objs, lists, fvecs, lineage, seen>>
        /\ UNCHANGED rmvars

\* one Graph, of three or of four nodes, asked for its matrices
InitGraph == GraphInit({ << Graph(SmallAdjacency, SmallWeights) >>,
                         << Graph(TestAdjacency, TestWeights) >> })
NextGraph ==
    \/ \E g \in 1..Len(graphs) : \E pad \in Pads : DoAdjacency(g, pad)
    \/ \E g \in 1..Len(graphs) : \E pad \in Pads : DoWeights(g, pad)
SpecGraph == InitGraph /\ [][NextGraph]_vars

\* the heap after s = Solution(g, c) for one of the graphs gs and one of the
\* lists cs[g] of distinct nodes
ListInit(gs, cs) ==
    /\ graphs = gs
    /\ \E g \in 1..Len(gs) : \E c \in cs[g] :
             LET h == SolutionFromList(EmptyHeap(gs), g, c)
             IN  objs = h.objs /\ lists = h.lists /\ fvecs = h.fvecs
    /\ lineage = <<0>>
    /\ seen = << << >> >>
    /\ last = Call("Solution", "ok", 1)
    /\ RmIdle

\* a Solution constructed from a list, then grown and viewed
InitList == ListInit(<< Graph(SmallAdjacency, SmallWeights),
                        Graph(TestAdjacency, TestWeights) >>,
                     << AllChains(3), TestChains >>)
NextList == Grow
SpecList == InitList /\ [][NextList]_vars

(***************************************************************************)
(* ReplayMemory.  `nadds` counts the calls of add and `stamps` is a second *)
(* memory of the same capacity that is given, at every add, the number of  *)
(* that add in place of the entry: both are history.                       *)
(***************************************************************************)
\* the entries added are drawn from 0..MaxItem
MaxItem == 1
\* the capacities and the number of adds of a run with arbitrary entries
MaxCapacity == 3
MaxAdds == 7
\* the capacities and the number of adds of a run that adds 0, 1, 2, ...
MaxSeqCapacity == 10
MaxSeqAdds == 101

\* ReplayMemory.__init__
ReplayMemory(cap) == [capacity |-> cap, arr |-> << >>, index |-> 0]

\* add with the test of fullness off by one: one entry more is appended
rm_add_overfull(m, e) ==
    IF Len(m.arr) <= m.capacity
    THEN [m EXCEPT !.arr = Append(m.arr, e),
                   !.index = (Len(m.arr) + 1) % m.capacity]
    ELSE [m EXCEPT !.arr[m.index + 1] = e,
                   !.index = (m.index + 1) % m.capacity]

\* add that overwrites at the cursor and leaves the cursor where it is
rm_add_stuck(m, e) ==
    IF Len(m.arr) < m.capacity
    THEN [m EXCEPT !.arr = Append(m.arr, e),
                   !.index = (Len(m.arr) + 1) % m.capacity]
    ELSE [m EXCEPT !.arr[m.index + 1] = e]

\* ReplayMemory.add
rm_add(m, e) ==
    IF Len(m.arr) < m.capacity
    THEN [m EXCEPT !.arr = Append(m.arr, e),
                   !.index = (Len(m.arr) + 1) % m.capacity]
    ELSE [m EXCEPT !.arr[m.index + 1] = e,
                   !.index = (m.index + 1) % m.capacity]

\* ReplayMemory.__len__
rm_len(m) == Len(m.arr)

\* equality that takes the entries for a set: their slots do not count
rm_eq_unordered(m1, m2) == Range(m1.arr) = Range(m2.arr)

\* ReplayMemory.__eq__: self.arr == val.arr, the lists compared in order
rm_eq(m1, m2) == m1.arr = m2.arr

\* ReplayMemory(cap) after add of s[1], ..., s[n], with the number of adds
RECURSIVE Built(_, _)
Built(cap, s) ==
    IF s = << >> THEN [mem |-> ReplayMemory(cap), nadds |-> 0]
    ELSE LET b == Built(cap, SubSeq(s, 1, Len(s) - 1))
         IN  [mem |-> rm_add(b.mem, s[Len(s)]), nadds |-> b.nadds + 1]

\* the sequences of up to n entries
RECURSIVE AddSeqs(_)
AddSeqs(n) ==
    IF n = 0 THEN {<< >>}
    ELSE AddSeqs(n - 1) \cup
         {Append(s, e) : s \in {t \in AddSeqs(n - 1) : Len(t) = n - 1}, e \in 0..MaxItem}

\* the memories of each capacity that up to MaxAdds adds can build
Others == [cap \in 1..MaxCapacity |-> {Built(cap, s) : s \in AddSeqs(MaxAdds)}]

Memory == [capacity |-> capacity, arr |-> arr, index |-> index]
Shadow == [capacity |-> capacity, arr |-> stamps, index |-> index]

\* memory.add(e)
DoAdd(e) ==
    /\ capacity' = rm_add(Memory, e).capacity
    /\ arr' = rm_add(Memory, e).arr
    /\ index' = rm_add(Memory, e).index
    /\ stamps' = rm_add(Shadow, nadds).arr
    /\ nadds' = nadds + 1
    /\ last' = Call("add", "ok", e)
    /\ UNCHANGED solvars

\* sample that asks for one entry more than it draws: batchsize < len
rm_sample_strict(m, batchsize, slots) ==
    IF ~(batchsize < Len(m.arr)) THEN [mem |-> m, err |-> "AssertionError", ret |-> << >>]
    ELSE [mem |-> m, err |-> "ok", ret |-> [i \in 1..batchsize |-> m.arr[slots[i]]]]

\* ReplayMemory.sample; random.sample draws the entries of the distinct
\* slots `slots`, in that order
rm_sample(m, batchsize, slots) ==
    IF ~(batchsize <= Len(m.arr)) THEN [mem |-> m, err |-> "AssertionError", ret |-> << >>]
    ELSE [mem |-> m, err |-> "ok", ret |-> [i \in 1..batchsize |-> m.arr[slots[i]]]]

\* the draws of random.sample(population of n, k): k distinct slots in any order
RECURSIVE Samples(_, _)
Samples(n, k) ==
    IF k = 0 THEN {<< >>}
    ELSE {Append(s, i) : s \in Samples(n, k - 1), i \in 1..n} \cap
         {s \in Seq(1..n) : Len(s) = k /\ \A i \in 1..k : \A j \in 1..k : i # j => s[i] # s[j]}

\* memory.sample(batchsize)
DoSample(batchsize, slots) ==
    LET r == rm_sample(Memory, batchsize, slots)
    IN  /\ capacity' = r.mem.capacity
        /\ arr' = r.mem.arr
        /\ index' = r.mem.index
        /\ last' = Call("sample", r.err, r.ret)
        /\ UNCHANGED <<nadds, stamps>>
        /\ UNCHANGED solvars

\* no Solution in the specifications of ReplayMemory
SolIdle ==
    /\ graphs = << >>
    /\ objs = << >>
    /\ lists = << >>
    /\ fvecs = << >>
    /\ lineage = << >>
    /\ seen = << >>

\* memory = ReplayMemory(cap)
RmInit(caps) ==
    /\ \E cap \in caps :
          /\ capacity = ReplayMemory(cap).capacity
          /\ arr = ReplayMemory(cap).arr
          /\ index = ReplayMemory(cap).index
    /\ nadds = 0
    /\ stamps = << >>
    /\ last = Call("ReplayMemory", "ok", 0)
    /\ SolIdle

\* for i in range(n): memory.add(i)
InitSeq == RmInit(1..MaxSeqCapacity)
NextSeq == nadds < MaxSeqAdds /\ DoAdd(nadds)
SpecSeq == InitSeq /\ [][NextSeq]_vars

\* any entries added, and samples taken in between
InitReplay == RmInit(1..MaxCapacity)
NextReplay ==
    \/ \E e \in 0..MaxItem : nadds < MaxAdds /\ DoAdd(e)
    \/ \E b \in 0..(MaxCapacity + 1) :
          \E slots \in (IF b <= Len(arr) THEN Samples(Len(arr), b) ELSE {<< >>}) :
             DoSample(b, slots)
SpecReplay == InitReplay /\ [][NextReplay]_vars

(***************************************************************************)
(* Properties of ReplayMemory.                                             *)
(***************************************************************************)
\* C4: with capacity C, after add of 0, 1, ..., C+k-1 in that order (k >= 0)
\* the memory holds exactly the last C items k..C+k-1, item j is in slot
\* j mod C and the cursor is (C+k) mod C; capacity 10 and the items 0..100
\* give the slots 100, 91, 92, ..., 99.
C4_LastItemsInSlots ==
    nadds >= capacity =>
        /\ rm_len(Memory) = capacity
        /\ Range(arr) = (nadds - capacity)..(nadds - 1)
        /\ \A j \in (nadds - capacity)..(nadds - 1) : arr[(j % capacity) + 1] = j
        /\ index = nadds % capacity
        /\ (capacity = 10 /\ nadds = 101) =>
              arr = <<100, 91, 92, 93, 94, 95, 96, 97, 98, 99>>

\* the run of test_replaymem: capacity 10 after the adds of 0..100
C4_Witness == capacity = 10 /\ nadds = 101 /\ Last("add", "ok", 100)

\* the number of the add that stored the oldest entry still in the memory
OldestStamp == CHOOSE s \in Range(stamps) : \A u \in Range(stamps) : s <= u

\* C5: with capacity C >= 1, after any interleaving of add and sample,
\* len(memory) = min(number of adds, C) <= C, 0 <= cursor < C and
\* cursor = (number of adds) mod C; once the memory is full, the slot at the
\* cursor holds the entry added earliest among those stored.
C5_CircularInvariant ==
    /\ rm_len(Memory) = Min(nadds, capacity)
    /\ rm_len(Memory) <= capacity
    /\ 0 <= index /\ index < capacity
    /\ index = nadds % capacity
    /\ Len(stamps) = Len(arr)
    /\ rm_len(Memory) = capacity => stamps[index + 1] = OldestStamp

\* a full memory that has wrapped, with a sample just taken from it
C5_Witness ==
    /\ capacity = 3 /\ rm_len(Memory) = capacity /\ nadds = capacity + 2
    /\ last.op = "sample" /\ last.err = "ok" /\ Len(last.ret) = 2

(***************************************************************************)
(* Properties of Solution.                                                 *)
(***************************************************************************)
Nodes(h, o) == 0..(NumNodes(h, o) - 1)

\* the views taken of a Solution that is no view itself, and what add_node
\* returned for them
ViewsOf(s) == {v \in Objects : lineage[v] = s /\ lineage[s] = 0}

\* the list and the tensor Solution s points to are in h2 what they are in h
SameStorage(h, h2, s) ==
    /\ h2.objs[s] = h.objs[s]
    /\ SolList(h2, s) = SolList(h, s)
    /\ FeatVec(h2, s) = FeatVec(h, s)

\* C1: for a Solution s built by chained add_node calls and a view v of s
\* (0 <= k <= len(s)), no add_node or pick_random_node call on v, or on the
\* Solutions these return, changes len(s), s.nodes_included(), the
\* iteration of s or s.features(): s shows what it showed when the view
\* was taken, a further call leaves the storage of s as it is, and after
\* the call v no longer shares that storage.
C1_ViewMutationIsolation ==
    \A s \in Objects : \A v \in ViewsOf(s) :
        /\ Obs(Heap, s) = seen[v]
        /\ \A i \in Nodes(Heap, v) :
              LET r == add_node(Heap, v, i)
              IN  /\ Obs(r.heap, s) = Obs(Heap, s)
                  /\ SameStorage(Heap, r.heap, s)
                  /\ r.err = "ok" =>
                        /\ r.heap.objs[v].solution # objs[s].solution
                        /\ r.heap.objs[v].featurevec # objs[s].featurevec
                        /\ r.heap.objs[r.ret].solution # objs[s].solution
                        /\ r.heap.objs[r.ret].featurevec # objs[s].featurevec
        /\ \A pos \in Draws(Heap, v) :
              LET r == pick_random_node(Heap, v, pos)
              IN  /\ Obs(r.heap, s) = Obs(Heap, s)
                  /\ SameStorage(Heap, r.heap, s)
                  /\ r.heap.objs[v].solution # objs[s].solution
                  /\ r.heap.objs[v].featurevec # objs[s].featurevec

\* a view cut inside a chain of two or more nodes, and the Solution add_node
\* returned for it, which went another way than the chain
C1_Witness ==
    \E s \in Objects : \E v \in ViewsOf(s) : \E r \in ViewsOf(s) :
        /\ SolLen(Heap, s) >= 2
        /\ SolLen(Heap, v) = 1
        /\ Last("add_node", "ok", r)
        /\ objs[r].solution = objs[v].solution
        /\ objs[v].solution # objs[s].solution
        /\ SolLen(Heap, r) = 2
        /\ nodes_included(Heap, r) # Prefix(nodes_included(Heap, s), 2)

\* C9: add_node(index) fails, with an assertion, exactly when index is
\* outside 0..N-1 or is among the receiver's first len(receiver) nodes (a
\* node the shared list holds only after a view's bound is accepted); a
\* failed add_node leaves len, nodes_included(), the iteration and
\* features() of every Solution as they were, creates no Solution and
\* appends to no list: the lists and tensors there were are unchanged, and
\* a list it creates is the copy of the receiver's nodes.
C9_AddNodeFailsExactly ==
    \A o \in Objects : \A i \in -1..NumNodes(Heap, o) :
        LET r == add_node(Heap, o, i)
        IN  /\ r.err \in {"ok", "AssertionError"}
            /\ r.err = "AssertionError" <=>
                  (i \notin Nodes(Heap, o) \/ i \in Range(nodes_included(Heap, o)))
            /\ r.err = "AssertionError" =>
                  /\ Len(r.heap.objs) = Len(objs)
                  /\ \A p \in Objects : Obs(r.heap, p) = Obs(Heap, p)
                  /\ \A l \in 1..Len(lists) : r.heap.lists[l] = lists[l]
                  /\ \A f \in 1..Len(fvecs) : r.heap.fvecs[f] = fvecs[f]
                  /\ \A l \in (Len(lists) + 1)..Len(r.heap.lists) :
                        r.heap.lists[l] = nodes_included(Heap, o)

\* add_node has just failed on a view, which it resolved, and a node that
\* the list the view was cut from holds after the bound can be added to it
C9_Witness ==
    \E s \in Objects : \E v \in ViewsOf(s) :
        /\ Last("add_node", "AssertionError", 0)
        /\ IsNone(objs[v].nsteps)
        /\ objs[v].solution = Len(lists)
        /\ SolLen(Heap, v) = 1
        /\ SolLen(Heap, s) = 2
        /\ add_node(Heap, v, SolList(Heap, s)[2]).err = "ok"

\* the position (from 1) of node i in the sequence l, 0 when it is not in it
PositionOf(l, i) ==
    IF \E p \in 1..Len(l) : l[p] = i THEN CHOOSE p \in 1..Len(l) : l[p] = i ELSE 0

\* C10: in every state reached from a Solution by add_node,
\* subsolution_at_step(k) with 0 <= k <= length, pick_random_node and
\* pick_node, every list holds each node at most once and only nodes of
\* 0..N-1, and the tensor that goes with it holds for node i its position
\* (from 1) in the list, or 0 when i is not in the list.
C10_StorageInvariant ==
    /\ Len(lists) = Len(fvecs)
    /\ \A o \in Objects :
          /\ objs[o].solution = objs[o].featurevec
          /\ ~IsNone(objs[o].nsteps) => Val(objs[o].nsteps) <= Len(SolList(Heap, o))
    /\ \A k \in 1..Len(lists) :
          /\ \A p \in 1..Len(lists[k]) : \A q \in 1..Len(lists[k]) :
                p # q => lists[k][p] # lists[k][q]
          /\ Range(lists[k]) \subseteq 0..(Len(fvecs[k]) - 1)
          /\ \A i \in 0..(Len(fvecs[k]) - 1) :
                fvecs[k][i + 1] = PositionOf(lists[k], i)

\* a view of the chain 2, 1, 0 that add_node resolved and grew by node 0,
\* with pick_node then picking the node that is left
C10_Witness ==
    \E o \in Objects :
        /\ lineage[o] # 0
        /\ objs[o].solution = 2
        /\ SolList(Heap, o) = <<2, 0>>
        /\ FeatVec(Heap, o) = <<2, 0, 1>>
        /\ lists[1] = <<2, 1, 0>>
        /\ fvecs[1] = <<3, 2, 1>>
        /\ Last("pick_node", "ok", <<o, 1>>)

\* C8: for a Solution s with len(s) < N, view or not, every epsilon and
\* every vector of values of the embedder, pick_node returns a node that is
\* not among the first len(s) nodes of s, or fails with an assertion: so
\* does every call of pick_node made.
C8_PickNodeNeverSelected ==
    (last.op = "pick_node" /\ SolLen(Heap, last.ret[1]) < NumNodes(Heap, last.ret[1])) =>
        /\ last.err \in {"ok", "AssertionError"}
        /\ last.err = "ok" =>
              last.ret[2] \in Nodes(Heap, last.ret[1]) \
                                 Range(nodes_included(Heap, last.ret[1]))

(***************************************************************************)
(* Properties of ==.                                                       *)
(***************************************************************************)
\* C2: for a Solution s built by chained add_node calls and 0 <= k <= len(s),
\* s.subsolution_at_step(k) == the Solution built from empty by the first k
\* of these calls (either way round), and != every Solution of length k
\* built from another chain.
C2_SubsolutionEqualsReplay ==
    \A s \in Objects : lineage[s] = 0 =>
        \A k \in 0..SolLen(Heap, s) :
            LET v == subsolution_at_step(Heap, s, k)
                c == Prefix(nodes_included(Heap, s), k)
            IN  /\ LET p == Replay(v.heap, objs[s].graph, c)
                    IN  /\ p.err = "ok"
                        /\ SolEq(p.heap, v.ret, p.ret) = [err |-> "ok", ret |-> TRUE]
                        /\ SolEq(p.heap, p.ret, v.ret) = [err |-> "ok", ret |-> TRUE]
                /\ \A d \in Chains(NumNodes(Heap, s), k) \ {c} :
                      LET q == Replay(v.heap, objs[s].graph, d)
                      IN  /\ q.err = "ok"
                          /\ SolEq(q.heap, v.ret, q.ret) = [err |-> "ok", ret |-> FALSE]
                          /\ SolEq(q.heap, q.ret, v.ret) = [err |-> "ok", ret |-> FALSE]

\* a view cut at step 1 inside a longer chain, a Solution built by the one
\* add_node call of that step, and == finding two Solutions equal
C2_Witness ==
    \E s \in Objects : \E v \in ViewsOf(s) : \E b \in Objects :
        /\ SolLen(Heap, s) >= 2
        /\ objs[v].solution = objs[s].solution
        /\ objs[v].nsteps = Some(1)
        /\ lineage[b] = 0 /\ b # s
        /\ objs[b].solution # objs[s].solution
        /\ objs[b].graph = objs[s].graph
        /\ SolLen(Heap, b) = 1
        /\ SolEq(Heap, v, b).ret
        /\ Last("eq", "ok", TRUE)

\* the value a[i] == b[i] for every i < n: both reads succeed and agree
SameItems(h, a, b, n) ==
    \A i \in 0..(n - 1) :
        /\ getitem(h, a, i).err = "ok"
        /\ getitem(h, b, i).err = "ok"
        /\ getitem(h, a, i).ret = getitem(h, b, i).ret

\* C3: for two Solutions a and b whose bound (if any) is within their list,
\* a == b iff len(a) == len(b), their graphs are equal by value and
\* a[i] == b[i] for every i < len(a), whether or not they are views, stale
\* receivers of add_node or share a list; two Solutions built by the same
\* chain of add_node calls, over graphs equal by value, are equal.
C3_EqualityByValue ==
    /\ \A a \in Objects : \A b \in Objects :
          LET r == SolEq(Heap, a, b)
          IN  /\ r.err = "ok"
              /\ r.ret <=>
                    /\ SolLen(Heap, a) = SolLen(Heap, b)
                    /\ graphs[objs[a].graph].adjacency = graphs[objs[b].graph].adjacency
                    /\ graphs[objs[a].graph].weights = graphs[objs[b].graph].weights
                    /\ SameItems(Heap, a, b, SolLen(Heap, a))
    /\ \A a \in Objects : IsNone(objs[a].nsteps) =>
          \A g \in 1..Len(graphs) :
              LET p == Replay(Heap, g, SolList(Heap, a))
              IN  /\ p.err = "ok"
                  /\ SolEq(p.heap, a, p.ret).ret <=>
                        (graphs[g].adjacency = graphs[objs[a].graph].adjacency /\
                         graphs[g].weights = graphs[objs[a].graph].weights)

\* == has found two Solutions equal where two Solutions of one node, over
\* two Graph objects that are equal by value, share no list
C3_Witness ==
    \E a \in Objects : \E b \in Objects :
        /\ objs[a].graph # objs[b].graph
        /\ objs[a].solution # objs[b].solution
        /\ SolLen(Heap, a) = 1
        /\ SolEq(Heap, a, b).ret
        /\ Last("eq", "ok", TRUE)

(***************************************************************************)
(* Properties of MVCProblem.                                               *)
(***************************************************************************)
\* an entry 1 of the adjacency matrix between two nodes outside the set sel
UncoveredEdge(adjacency, sel) ==
    \E i \in 0..(Len(adjacency) - 1) : \E j \in 0..(Len(adjacency) - 1) :
        adjacency[i + 1][j + 1] = 1 /\ i \notin sel /\ j \notin sel

\* C6: terminate(s) is true iff no entry adjacency[i][j] == 1 has both i and
\* j outside the first len(s) nodes of s; it changes neither the matrices of
\* the graph nor a Solution.  On the graph of the tests (edges 0-2, 1-3,
\* 2-3) it is false for the node 0 alone and true for the nodes 0 and 3.
C6_TerminateIffCovered ==
    \A o \in Objects :
        LET r == terminate(Heap, o)
            g == graphs[objs[o].graph]
            sel == Range(nodes_included(Heap, o))
        IN  /\ r.err = "ok"
            /\ r.ret <=> ~UncoveredEdge(g.adjacency, sel)
            /\ r.heap.graphs[objs[o].graph].adjacency = g.adjacency
            /\ r.heap.graphs[objs[o].graph].weights = g.weights
            /\ r.heap.objs = objs /\ r.heap.lists = lists /\ r.heap.fvecs = fvecs
            /\ g.adjacency = TestAdjacency =>
                  /\ nodes_included(Heap, o) = <<0>> => ~r.ret
                  /\ nodes_included(Heap, o) = <<0, 3>> => r.ret

\* terminate has returned true, and on the graph of the tests there is the
\* chain 0, 3, 2 that covers, a view of it cut at 0, 3 that covers and a
\* view of it cut at 0 that does not
C6_Witness ==
    \E s \in Objects : \E v \in ViewsOf(s) : \E w \in ViewsOf(s) :
        /\ graphs[objs[s].graph].adjacency = TestAdjacency
        /\ None \in DOMAIN graphs[objs[s].graph].adjcache
        /\ SolList(Heap, s) = <<0, 3, 2>>
        /\ objs[v].solution = objs[s].solution /\ objs[v].nsteps = Some(2)
        /\ objs[w].solution = objs[s].solution /\ objs[w].nsteps = Some(1)
        /\ terminate(Heap, v).ret /\ ~terminate(Heap, w).ret
        /\ Last("terminate", "ok", TRUE)

\* C7: cumul_reward(s, fr, to) is cost(s.subsolution_at_step(to)) -
\* cost(s.subsolution_at_step(fr)) and leaves s, and the heap, as they are;
\* for 0 <= fr <= to <= len(s) it is -(to - fr) (-3 for the steps 0 to 3),
\* and so cumul_reward(s,a,c) = cumul_reward(s,a,b) + cumul_reward(s,b,c).
C7_CumulReward ==
    \A o \in Objects : \A fr \in 0..SolLen(Heap, o) : \A to \in fr..SolLen(Heap, o) :
        LET r == cumul_reward(Heap, o, fr, to)
        IN  /\ r.err = "ok"
            /\ r.heap = Heap
            /\ r.ret = 0 - (to - fr)
            /\ (fr = 0 /\ to = 3) => r.ret = -3
            /\ \A mid \in fr..to :
                  r.ret = cumul_reward(Heap, o, fr, mid).ret + cumul_reward(Heap, o, mid, to).ret

\* cumul_reward has returned -3 where a view of three nodes of a longer
\* chain of the tests exists
C7_Witness ==
    \E o \in Objects :
        /\ objs[o].nsteps = Some(3)
        /\ SolList(Heap, o) = <<0, 2, 3, 1>>
        /\ cumul_reward(Heap, o, 0, 3).ret = -3
        /\ Last("cumul_reward", "ok", -3)

(***************************************************************************)
(* Properties of the picks.                                                *)
(***************************************************************************)
\* C11: pick_random_node on a Solution s, view or not, resolves s to its
\* own first len(s) nodes and returns a node of 0..N-1 that is not among
\* them; every such node is returned for some draw (also one the shared list
\* holds after a view's bound); it fails, with IndexError, iff len(s) = N;
\* and it leaves every other Solution, every list and every tensor there
\* was as they were.
C11_PickRandomNode ==
    \A o \in Objects :
        LET unselected == Nodes(Heap, o) \ Range(nodes_included(Heap, o))
            rs == {pick_random_node(Heap, o, pos) : pos \in Draws(Heap, o)}
        IN  /\ \A r \in rs :
                  /\ IsNone(r.heap.objs[o].nsteps)
                  /\ SolList(r.heap, o) = nodes_included(Heap, o)
                  /\ r.err = "IndexError" <=> SolLen(Heap, o) = NumNodes(Heap, o)
                  /\ r.err \in {"ok", "IndexError"}
                  /\ r.err = "ok" => r.ret \in unselected
                  /\ \A p \in Objects \ {o} :
                        r.heap.objs[p] = objs[p] /\ Obs(r.heap, p) = Obs(Heap, p)
                  /\ \A l \in 1..Len(lists) : r.heap.lists[l] = lists[l]
                  /\ \A f \in 1..Len(fvecs) : r.heap.fvecs[f] = fvecs[f]
            /\ SolLen(Heap, o) < NumNodes(Heap, o) =>
                  {r.ret : r \in rs} = unselected

\* pick_random_node has returned, for a view of one node, a node that the
\* list the view was cut from holds after the bound
C11_Witness ==
    \E s \in Objects : \E v \in ViewsOf(s) :
        /\ SolLen(Heap, s) >= 2
        /\ IsNone(objs[v].nsteps)
        /\ objs[v].solution # objs[s].solution
        /\ SolLen(Heap, v) = 1
        /\ SolList(Heap, v) = Prefix(SolList(Heap, s), 1)
        /\ Last("pick_random_node", "ok", SolList(Heap, s)[2])

(***************************************************************************)
(* Properties of ReplayMemory.sample.                                      *)
(***************************************************************************)
\* the draws sample(batchsize) can make of the memory as it is
SlotsFor(batchsize) ==
    IF batchsize <= Len(arr) THEN Samples(Len(arr), batchsize) ELSE {<< >>}

\* C12: sample(batchsize) fails, with an assertion, iff batchsize exceeds the
\* number of stored entries; otherwise it returns exactly batchsize entries,
\* those of pairwise distinct slots; either way the entries, their slots and
\* the cursor are what they were: so for every sample that can be taken, and
\* for the one that was.
C12_SampleWithoutReplacement ==
    /\ \A b \in 0..(MaxCapacity + 1) : \A slots \in SlotsFor(b) :
          LET r == rm_sample(Memory, b, slots)
          IN  /\ r.err = "AssertionError" <=> b > rm_len(Memory)
              /\ r.err \in {"ok", "AssertionError"}
              /\ r.err = "ok" =>
                    /\ Len(r.ret) = b
                    /\ \E f \in [1..b -> 1..Len(arr)] :
                          /\ \A i \in 1..b : \A j \in 1..b : i # j => f[i] # f[j]
                          /\ \A i \in 1..b : r.ret[i] = arr[f[i]]
              /\ r.mem = Memory
    /\ (last.op = "sample" /\ last.err = "ok") => Len(last.ret) <= rm_len(Memory)

\* sample has just failed on a memory that holds two entries of three
C12_Witness ==
    /\ capacity = 3 /\ rm_len(Memory) = 2 /\ arr[1] # arr[2]
    /\ Last("sample", "AssertionError", << >>)

(***************************************************************************)
(* Properties of Graph.                                                    *)
(***************************************************************************)
\* the base matrix the call op reads
BaseMatrix(g, op) == IF op = "adjacency" THEN g.adjacency ELSE g.weights

\* C13: on a graph of N >= 1 nodes, adjacency(pad) and weights(pad) with an
\* integer pad fail if pad < N (0 and the negative ones included) and return
\* otherwise the pad x pad matrix that holds the base matrix in its top-left
\* N x N block and 0 elsewhere; with no pad they return the base matrix; the
\* base matrices are what they were at construction.
C13_PadOrFail ==
    /\ \A g \in 1..Len(graphs) :
          \/ graphs[g].adjacency = SmallAdjacency /\ graphs[g].weights = SmallWeights
          \/ graphs[g].adjacency = TestAdjacency /\ graphs[g].weights = TestWeights
    /\ last.op \in {"adjacency", "weights"} =>
          LET pad == last.ret[1]
              base == BaseMatrix(graphs[1], last.op)
          IN  IF IsNone(pad) THEN last.err = "ok" /\ last.ret[2] = base
              ELSE IF Val(pad) < Len(base) THEN last.err = "AssertionError"
              ELSE last.err = "ok" /\ last.ret[2] = PadMatrix(base, Val(pad))

(***************************************************************************)
(* Properties of the errors.                                               *)
(***************************************************************************)
\* the kinds of error pick_random_node raises on the Solutions that have
\* no unselected node left
ExhaustedKinds ==
    {pick_random_node(Heap, o, 0).err :
        o \in {p \in Objects : SolLen(Heap, p) = NumNodes(Heap, p)}}

\* the kinds of error raised where a precondition is violated: add_node of
\* a node out of range or selected, sample of more than is stored, a view
\* read at or past its bound, pick_node on a full Solution
PreconditionKinds ==
    UNION {{add_node(Heap, o, i).err : i \in -1..NumNodes(Heap, o)} : o \in Objects} \cup
    {rm_sample(ReplayMemory(1), 1, << >>).err} \cup
    {getitem(Heap, o, Val(objs[o].nsteps)).err :
        o \in {p \in Objects : ~IsNone(objs[p].nsteps)}} \cup
    {pick_node(Heap, o, Zeros(NumNodes(Heap, o)), FALSE, 0).err :
        o \in {p \in Objects : SolLen(Heap, p) = NumNodes(Heap, p)}}

\* C14: the error pick_random_node raises when no unselected node is left
\* is of a kind that no violation of a precondition raises (add_node of an
\* invalid or selected node, sample of more than is stored, reading a view
\* at or past its bound, pick_node on a full Solution).
C14_ExhaustedIsDistinct ==
    \A k \in ExhaustedKinds : k # "ok" /\ k \notin PreconditionKinds

C16_ViewStableUnderGrowth ==
    [][\A v \in Objects :
          (/\ ~IsNone(objs[v].nsteps)
           /\ objs'[v] = objs[v]
           /\ Len(lists'[objs[v].solution]) > Len(lists[objs[v].solution]))
          => LET k == Val(objs[v].nsteps)
             IN  /\ SolLen(Heap', v) = k
                 /\ Obs(Heap', v) = Obs(Heap, v)
                 /\ SolIter(Heap', v).err = "ok"
                 /\ \A j \in 0..(k - 1) :
                       /\ getitem(Heap', v, j).err = "ok"
                       /\ getitem(Heap', v, j) = getitem(Heap, v, j)
                 /\ \A i \in Nodes(Heap, v) :
                       features(Heap', v)[i + 1] <=>
                           i \in Range(Prefix(SolList(Heap', v), k))
                 /\ \E i \in Nodes(Heap, v) : FeatVec(Heap', v)[i + 1] > k
      ]_vars

\* add_node has just extended the list that a view of one node shares, and
\* the tensor the view shares holds the stamps of the later selections
C16_Witness ==
    \E v \in Objects : \E r \in Objects :
        /\ lineage[v] # 0 /\ lineage[r] = 0
        /\ objs[v].nsteps = Some(1)
        /\ IsNone(objs[r].nsteps)
        /\ objs[r].solution = objs[v].solution
        /\ objs[r].featurevec = objs[v].featurevec
        /\ Len(SolList(Heap, v)) > seen[v].len
        /\ \E i \in Nodes(Heap, v) : FeatVec(Heap, v)[i + 1] > 1 /\ ~features(Heap, v)[i + 1]
        /\ Last("add_node", "ok", r)

(***************************************************************************)
(* Properties of the views past the end and of membership.                 *)
(***************************************************************************)
\* C17: for step > len(s), v = s.subsolution_at_step(step) is constructed
\* with no error, and v[k] for len(s) <= k < step, the full iteration of v
\* and MVCProblem.terminate(v) fail with an error: no read of v returns a
\* node for a step past len(s).
C17_LazyBound ==
    \A s \in Objects : \A step \in (SolLen(Heap, s) + 1)..(NumNodes(Heap, s) + 1) :
        LET v == subsolution_at_step(Heap, s, step)
        IN  /\ v.err = "ok"
            /\ \A k \in SolLen(Heap, s)..(step - 1) :
                  getitem(v.heap, v.ret, k).err # "ok"
            /\ SolIter(v.heap, v.ret).err # "ok"
            /\ terminate(v.heap, v.ret).err # "ok"

\* C18: for every Solution s reached by add_node and subsolution_at_step(k),
\* 0 <= k <= length (views and stale receivers of add_node included), and
\* every node i of 0..N-1, `i in s` is true iff i is in s.nodes_included(),
\* that is iff s.features()[i] is set.
C18_MembershipAgrees ==
    \A s \in Objects : \A i \in Nodes(Heap, s) :
        /\ contains(Heap, s, i) <=> i \in Range(nodes_included(Heap, s))
        /\ contains(Heap, s, i) <=> features(Heap, s)[i + 1]

(***************************************************************************)
(* Properties of ReplayMemory.__eq__.                                      *)
(***************************************************************************)
\* the lists a and b hold the same entries in the same slots
SameSlots(a, b) == Len(a) = Len(b) /\ \A i \in 1..Len(a) : a[i] = b[i]

\* C19 as stated: == compares the stored entries in slot order and nothing
\* else, and whenever two memories of the same capacity are ==, they are ==
\* after add of the same entry to both.
C19_EqPreservedByAdd ==
    \A x \in Others[capacity] :
        /\ rm_eq(Memory, x.mem) <=> SameSlots(arr, x.mem.arr)
        /\ rm_eq(Memory, x.mem) =>
              \A e \in 0..MaxItem : rm_eq(rm_add(Memory, e), rm_add(x.mem, e))

\* C19 as amended: == compares the stored entries in slot order and nothing
\* else; whenever two memories of the same capacity are == and have the
\* same cursor, they are == and have the same cursor after add of the same
\* entry to both; and two memories that are == have the same cursor if
\* neither is full or both were given the same number of adds.
C19_EqPreservedAtSameCursor ==
    \A x \in Others[capacity] :
        /\ rm_eq(Memory, x.mem) <=> SameSlots(arr, x.mem.arr)
        /\ (rm_eq(Memory, x.mem) /\ x.mem.index = index) =>
              \A e \in 0..MaxItem :
                  /\ rm_eq(rm_add(Memory, e), rm_add(x.mem, e))
                  /\ rm_add(Memory, e).index = rm_add(x.mem, e).index
        /\ (rm_eq(Memory, x.mem) /\ (rm_len(Memory) < capacity \/ x.nadds = nadds)) =>
              x.mem.index = index

\* add has filled a memory of capacity 2 and wrapped once round: a memory
\* built by fewer adds is == to it with the same cursor, and another one
\* is == to it with another cursor
C19_Witness ==
    /\ capacity = 2 /\ nadds = 4 /\ last.op = "add"
    /\ \E x \in Others[capacity] :
          rm_eq(Memory, x.mem) /\ x.mem.index = index /\ x.nadds = 2
    /\ \E y \in Others[capacity] :
          rm_eq(Memory, y.mem) /\ y.mem.index # index

(***************************************************************************)
(* Properties of a Solution constructed from a list.                       *)
(***************************************************************************)
\* the tensor that holds for each node its position (from 1) in the list l
StampsOf(l, n) == [i \in 1..n |-> PositionOf(l, i - 1)]

\* C20: a Solution constructed from a list of distinct nodes n1..nm (and no
\* tensor) is as the one built from empty by add_node(n1)...add_node(nm):
\* its tensor holds the step (from 1) of each node, so for 0 <= k <= m the
\* view subsolution_at_step(k) has features() marking n1..nk and no other
\* node, and resolving the view gives a tensor with the stamps 1..k.
C20_ListConstructorStamps ==
    \A o \in Objects :
        LET n == NumNodes(Heap, o)
        IN  /\ IsNone(objs[o].nsteps) => FeatVec(Heap, o) = StampsOf(SolList(Heap, o), n)
            /\ \A k \in 0..SolLen(Heap, o) :
                  LET v == subsolution_at_step(Heap, o, k)
                      first == Prefix(nodes_included(Heap, o), k)
                  IN  /\ v.err = "ok"
                      /\ \A i \in Nodes(Heap, o) :
                            features(v.heap, v.ret)[i + 1] <=> i \in Range(first)
                      /\ FeatVec(resolve_view(v.heap, v.ret), v.ret) = StampsOf(first, n)
====
